---- MODULE Spec2Model ----
(***************************************************************************)
(* A model of src/main.py: the JSON flattener (flatten_json), the CSV      *)
(* appender (append_flattened_to_csv), the document router                 *)
(* (process_files_in_folder) and the run ledger (main,                     *)
(* update_control_file).                                                   *)
(*                                                                         *)
(* Text is a sequence of code points, so that concatenation, endswith and  *)
(* sorted() are computed the way Python computes them on str.              *)
(* A JSON value is a record [t, s, c]:                                     *)
(*   t = "str"  : a string scalar with text s                              *)
(*   t = "null" : the scalar null                                          *)
(*   t = "obj"  : a dict, c the sequence of its items [k, v] in order      *)
(*   t = "arr"  : a list, c the sequence of its elements [k |-> <<>>, v]   *)
(*   t = "malformed" : file content that json.load cannot parse            *)
(* A Python dict built at run time (a flattened record) is a sequence of   *)
(* items [k, v] with distinct keys, in insertion order.                    *)
(***************************************************************************)
EXTENDS Integers, Sequences, FiniteSets, TLC

VARIABLES
    intake,          \* input_folder: file name -> file content
    processed,       \* processed_folder: file name -> file content
    csvFiles,        \* output_folder: group key -> lines of <key>.csv
    controlFile,     \* control_file: [exists, lines]
    clock,           \* the wall clock read by datetime.now()
    uuids,           \* number of identifiers uuid.uuid4() has handed out
    runs,            \* number of invocations of the script so far
    pc,              \* position of the running process
    process_id,      \* module global process_id of the running process
    start_date,      \* local of main
    status,          \* local of main
    error,           \* local of main: the exception caught, if any
    todo,            \* the names of os.listdir(input_folder) still to visit
    filename,        \* loop variable of process_files_in_folder
    json_data,       \* local of process_files_in_folder
    numero_control,  \* local of process_files_in_folder
    pending,         \* the append calls of the current file still to make
    visited,         \* history: the names the loop of the last run took, in order
    calls,           \* history: the append_flattened_to_csv calls made
    fin,             \* argument of a flatten_json call under test
    fout             \* its result

vars == <<intake, processed, csvFiles, controlFile, clock, uuids, runs, pc,
          process_id, start_date, status, error, todo, filename, json_data,
          numero_control, pending, visited, calls, fin, fout>>

----------------------------------------------------------------------------
(* Bounds *)

MaxFiles == 2
MaxRuns == 2
MaxClock == 2
MaxDepth == 2
MaxWidth == 2

----------------------------------------------------------------------------
(* Text *)

\* "numeroControl"
NUMERO_CONTROL == <<110, 117, 109, 101, 114, 111, 67, 111, 110, 116, 114, 111, 108>>
\* "processID"
PROCESS_ID == <<112, 114, 111, 99, 101, 115, 115, 73, 68>>
\* "identificacion"
IDENTIFICACION == <<105, 100, 101, 110, 116, 105, 102, 105, 99, 97, 99, 105, 111, 110>>
\* "cuerpo documento"
CUERPO_DOCUMENTO == <<99, 117, 101, 114, 112, 111, 32, 100, 111, 99, 117, 109, 101, 110, 116, 111>>
\* "N/A"
NA == <<78, 47, 65>>
\* ".json"
DOT_JSON == <<46, 106, 115, 111, 110>>
\* "."
SEPARATOR == <<46>>
\* "start_date", "end_date", "status", "Success", "Failed"
START_DATE == <<115, 116, 97, 114, 116, 95, 100, 97, 116, 101>>
END_DATE == <<101, 110, 100, 95, 100, 97, 116, 101>>
STATUS == <<115, 116, 97, 116, 117, 115>>
SUCCESS == <<83, 117, 99, 99, 101, 115, 115>>
FAILED == <<70, 97, 105, 108, 101, 100>>
\* "a", "b", "1", "2", "7", "x"
KA == <<97>>
KB == <<98>>
T1 == <<49>>
T2 == <<50>>
T7 == <<55>>
TX == <<120>>

\* str(i) for a natural number i: its decimal digits
RECURSIVE IntToStr(_)
IntToStr(i) ==
    IF i < 10 THEN <<48 + i>> ELSE IntToStr(i \div 10) \o <<48 + (i % 10)>>

\* a < b on Python str: lexicographic order of code points
RECURSIVE StrLess(_, _)
StrLess(a, b) ==
    IF b = <<>> THEN FALSE
    ELSE IF a = <<>> THEN TRUE
    ELSE IF a[1] # b[1] THEN a[1] < b[1]
    ELSE StrLess(Tail(a), Tail(b))

\* a.endswith(suffix)
EndsWith(a, suffix) ==
    /\ Len(a) >= Len(suffix)
    /\ SubSeq(a, Len(a) - Len(suffix) + 1, Len(a)) = suffix

\* sorted(S) for a finite set S of str
RECURSIVE Sorted(_)
Sorted(S) ==
    IF S = {} THEN <<>>
    ELSE LET m == CHOOSE x \in S : \A y \in S \ {x} : StrLess(x, y)
         IN  <<m>> \o Sorted(S \ {m})

----------------------------------------------------------------------------
(* JSON values and Python dicts *)

Str(s) == [t |-> "str", s |-> s, c |-> <<>>]
Null == [t |-> "null", s |-> <<>>, c |-> <<>>]
Obj(items) == [t |-> "obj", s |-> <<>>, c |-> items]
Arr(elems) == [t |-> "arr", s |-> <<>>, c |-> elems]
Malformed == [t |-> "malformed", s |-> <<>>, c |-> <<>>]
It(k, v) == [k |-> k, v |-> v]
El(v) == [k |-> <<>>, v |-> v]

\* isinstance(v, dict), isinstance(v, list)
IsDict(v) == v.t = "obj"
IsList(v) == v.t = "arr"

\* the key set of a dict d
Keys(d) == {d[i].k : i \in 1..Len(d)}

\* d[k] for a key k of the dict d
Get(d, k) == d[CHOOSE i \in 1..Len(d) : d[i].k = k].v

\* d[k] = v on the dict d: replaces the value in place, or inserts at the end
SetItem(d, k, v) ==
    IF k \in Keys(d)
    THEN [i \in 1..Len(d) |-> IF d[i].k = k THEN It(k, v) ELSE d[i]]
    ELSE Append(d, It(k, v))

\* dict(items) for a list of pairs
RECURSIVE DictOf(_)
DictOf(items) ==
    IF items = <<>> THEN <<>>
    ELSE LET n == Len(items)
         IN  SetItem(DictOf(SubSeq(items, 1, n - 1)), items[n].k, items[n].v)

----------------------------------------------------------------------------
(* flatten_json *)

\* the outcome of a call: a returned dict, or a raised exception
Returned(d) == [ok |-> TRUE, d |-> d]
Raised == [ok |-> FALSE, d |-> <<>>]

RECURSIVE flatten_json(_, _)
RECURSIVE flatten_items(_, _, _)
RECURSIVE flatten_list(_, _, _)

\* for i, item in enumerate(v): items.extend(flatten_json(item, f"{new_key}[{i}]").items())
\* from position i (one-based here, zero-based in the path) on
flatten_list(v, new_key, i) ==
    IF i > Len(v) THEN Returned(<<>>)
    ELSE LET r == flatten_json(v[i].v, new_key \o <<91>> \o IntToStr(i - 1) \o <<93>>)
         IN  IF ~r.ok THEN Raised
             ELSE LET rest == flatten_list(v, new_key, i + 1)
                  IN  IF ~rest.ok THEN Raised ELSE Returned(r.d \o rest.d)

\* the body of the loop "for k, v in json_object.items()" from item i on;
\* returns the list items
flatten_items(c, parent_key, i) ==
    IF i > Len(c) THEN Returned(<<>>)
    ELSE LET k == c[i].k
             v == c[i].v
             new_key == IF parent_key # <<>> THEN parent_key \o SEPARATOR \o k ELSE k
             r == IF IsDict(v) THEN flatten_json(v, new_key)
                  ELSE IF IsList(v) THEN flatten_list(v.c, new_key, 1)
                  ELSE Returned(<<It(new_key, v)>>)
         IN  IF ~r.ok THEN Raised
             ELSE LET rest == flatten_items(c, parent_key, i + 1)
                  IN  IF ~rest.ok THEN Raised ELSE Returned(r.d \o rest.d)

\* json_object.items() raises AttributeError unless json_object is a dict
flatten_json(json_object, parent_key) ==
    IF ~IsDict(json_object) THEN Raised
    ELSE LET r == flatten_items(json_object.c, parent_key, 1)
         IN  IF ~r.ok THEN Raised ELSE Returned(DictOf(r.d))

----------------------------------------------------------------------------
(* append_flattened_to_csv *)

\* csv.DictWriter(file, fieldnames).writeheader(): one cell per field name
HeaderLine(fieldnames) == [i \in 1..Len(fieldnames) |-> Str(fieldnames[i])]

\* csv.DictWriter(file, fieldnames).writerow(rowdict): the values of rowdict
\* in the order of fieldnames, one cell per field name
RowLine(fieldnames, rowdict) ==
    [i \in 1..Len(fieldnames) |-> Get(rowdict, fieldnames[i])]

\* fieldnames=sorted(keys) with keys = set(data.keys()) + the injected two
FieldNames(data) == Sorted(Keys(data) \cup {NUMERO_CONTROL, PROCESS_ID})

\* A variant that keeps a numeroControl or processID the record came with
\* (data.setdefault in place of the assignments of lines 56-57).
append_keeping_own_fields(files, data, key, nc, pid) ==
    LET file_exists == key \in DOMAIN files
        fieldnames == FieldNames(data)
        withNc == IF NUMERO_CONTROL \in Keys(data) THEN data
                  ELSE SetItem(data, NUMERO_CONTROL, nc)
        row == IF PROCESS_ID \in Keys(withNc) THEN withNc
               ELSE SetItem(withNc, PROCESS_ID, Str(pid))
        old == IF file_exists THEN files[key] ELSE <<>>
        new == IF ~file_exists
               THEN old \o <<HeaderLine(fieldnames), RowLine(fieldnames, row)>>
               ELSE old \o <<RowLine(fieldnames, row)>>
    IN  [k \in DOMAIN files \cup {key} |-> IF k = key THEN new ELSE files[k]]

\* A variant that reconciles the row with the header the file has: one cell
\* per header column, empty where the row lacks the column.
append_reconciled(files, data, key, nc, pid) ==
    LET file_exists == key \in DOMAIN files
        row == SetItem(SetItem(data, NUMERO_CONTROL, nc), PROCESS_ID, Str(pid))
        old == IF file_exists THEN files[key] ELSE <<>>
        fieldnames == IF file_exists
                      THEN [p \in 1..Len(old[1]) |-> old[1][p].s]
                      ELSE FieldNames(data)
        cells == [p \in 1..Len(fieldnames) |->
                     IF fieldnames[p] \in Keys(row) THEN Get(row, fieldnames[p])
                     ELSE Str(<<>>)]
        new == IF ~file_exists THEN old \o <<HeaderLine(fieldnames), cells>>
               ELSE old \o <<cells>>
    IN  [k \in DOMAIN files \cup {key} |-> IF k = key THEN new ELSE files[k]]

\* A variant that writes the header on every call (the test of line 54 lost).
append_with_header_always(files, data, key, nc, pid) ==
    LET file_exists == key \in DOMAIN files
        fieldnames == FieldNames(data)
        row == SetItem(SetItem(data, NUMERO_CONTROL, nc), PROCESS_ID, Str(pid))
        old == IF file_exists THEN files[key] ELSE <<>>
    IN  [k \in DOMAIN files \cup {key} |->
            IF k = key
            THEN old \o <<HeaderLine(fieldnames), RowLine(fieldnames, row)>>
            ELSE files[k]]

\* The output files after append_flattened_to_csv(data, <key>.csv, nc) in a
\* process whose global process_id is pid.  files maps a group key to the
\* lines of its file; a key outside DOMAIN files has no file yet.
append_flattened_to_csv(files, data, key, nc, pid) ==
    LET file_exists == key \in DOMAIN files
        fieldnames == FieldNames(data)
        row == SetItem(SetItem(data, NUMERO_CONTROL, nc), PROCESS_ID, Str(pid))
        old == IF file_exists THEN files[key] ELSE <<>>
        new == IF ~file_exists
               THEN old \o <<HeaderLine(fieldnames), RowLine(fieldnames, row)>>
               ELSE old \o <<RowLine(fieldnames, row)>>
    IN  [k \in DOMAIN files \cup {key} |-> IF k = key THEN new ELSE files[k]]

----------------------------------------------------------------------------
(* update_control_file *)

ControlFields == <<PROCESS_ID, START_DATE, END_DATE, STATUS>>

\* A variant that writes the row only when the file is there already (the
\* call of line 78 moved under an else).
update_control_file_header_or_row(file, pid, start, end, st) ==
    LET row == <<pid, start, end, st>>
    IN  [exists |-> TRUE,
         lines |-> IF ~file.exists THEN file.lines \o <<ControlFields>>
                   ELSE file.lines \o <<row>>]

update_control_file(file, pid, start, end, st) ==
    LET row == <<pid, start, end, st>>
    IN  [exists |-> TRUE,
         lines |-> IF ~file.exists THEN file.lines \o <<ControlFields, row>>
                   ELSE file.lines \o <<row>>]

----------------------------------------------------------------------------
(* process_files_in_folder: the append calls one document leads to *)

FlattenCall(key, v) == [kind |-> "flatten", key |-> key, v |-> v]
SingleCall(key, v) == [kind |-> "single", key |-> key, v |-> v]
MarkerCall(key) == [kind |-> "marker", key |-> key, v |-> Null]

\* for item in value: one call per element
RECURSIVE ListCalls(_, _, _)
ListCalls(key, elems, i) ==
    IF i > Len(elems) THEN <<>>
    ELSE <<IF IsDict(elems[i].v) THEN FlattenCall(key, elems[i].v)
           ELSE SingleCall(key, elems[i].v)>> \o ListCalls(key, elems, i + 1)

\* the body of "for key, value in json_data.items()" for one item
EntryCalls(key, value) ==
    (IF IsDict(value) THEN <<FlattenCall(key, value)>>
     ELSE IF IsList(value) THEN ListCalls(key, value.c, 1)
     ELSE <<SingleCall(key, value)>>)
    \o (IF key = CUERPO_DOCUMENTO THEN <<MarkerCall(key)>> ELSE <<>>)

RECURSIVE DocCalls(_, _)
DocCalls(items, i) ==
    IF i > Len(items) THEN <<>>
    ELSE EntryCalls(items[i].k, items[i].v) \o DocCalls(items, i + 1)

\* numero_control = json_data.get("identificacion", {}).get("numeroControl", "N/A")
\* .get raises AttributeError on anything but a dict
ControlNumber(data) ==
    IF ~IsDict(data) THEN Raised
    ELSE LET ident == IF IDENTIFICACION \in Keys(data.c)
                      THEN Get(data.c, IDENTIFICACION) ELSE Obj(<<>>)
         IN  IF ~IsDict(ident) THEN Raised
             ELSE IF NUMERO_CONTROL \in Keys(ident.c)
                  THEN Returned(Get(ident.c, NUMERO_CONTROL))
                  ELSE Returned(Str(NA))

----------------------------------------------------------------------------
(* The files found in the input folder *)

\* {"identificacion": {"numeroControl": "7"},
\*  "cuerpo documento": [{"a": "1"}, "2"]}
DocBody ==
    Obj(<<It(IDENTIFICACION, Obj(<<It(NUMERO_CONTROL, Str(T7))>>)),
          It(CUERPO_DOCUMENTO, Arr(<<El(Obj(<<It(KA, Str(T1))>>)), El(Str(T2))>>))>>)

\* {"a": {"b": {"a": "1"}, "a": [{"b": null}]},
\*  "b": [["1"], {"numeroControl": "x", "processID": "x"}]}
DocNested ==
    Obj(<<It(KA, Obj(<<It(KB, Obj(<<It(KA, Str(T1))>>)),
                       It(KA, Arr(<<El(Obj(<<It(KB, Null)>>))>>))>>)),
          It(KB, Arr(<<El(Arr(<<El(Str(T1))>>)),
                       El(Obj(<<It(NUMERO_CONTROL, Str(TX)),
                                It(PROCESS_ID, Str(TX))>>))>>))>>)

\* {"b": "1", "cuerpo documento": {"a": ["1", "2"]}}
DocScalarList ==
    Obj(<<It(KB, Str(T1)),
          It(CUERPO_DOCUMENTO, Obj(<<It(KA, Arr(<<El(Str(T1)), El(Str(T2))>>))>>))>>)

\* {"identificacion": "x", "a": "1"}
DocIdentScalar ==
    Obj(<<It(IDENTIFICACION, Str(TX)), It(KA, Str(T1))>>)

\* {"identificacion": {"a": "1"}, "a": {}, "cuerpo documento": "1"}
DocNoControl ==
    Obj(<<It(IDENTIFICACION, Obj(<<It(KA, Str(T1))>>)),
          It(KA, Obj(<<>>)),
          It(CUERPO_DOCUMENTO, Str(T1))>>)

ContentList ==
    <<DocBody, DocNested, DocScalarList, DocIdentScalar, DocNoControl, Malformed>>
Contents == {ContentList[i] : i \in 1..Len(ContentList)}
ContentIndex(c) == CHOOSE i \in 1..Len(ContentList) : ContentList[i] = c

\* "1.json", "2.json", ...
JsonName(i) == IntToStr(i) \o DOT_JSON

\* a directory entry that is not a document, such as a sub-folder "x"
OtherNames == {TX}

\* An input folder with n documents, each with one of Contents, and an entry
\* that is not a document (with the default configuration the output and
\* processed folders lie inside the input folder).  The program uses a file
\* name only to test its suffix and to build paths, and os.listdir returns the
\* names in any order, so every folder is a renaming of one whose documents
\* are named 1.json .. n.json in the order of ContentList.
FoldersOf(n) ==
    {F \in [{JsonName(i) : i \in 1..n} \cup OtherNames -> Contents] :
        /\ \A o \in OtherNames : F[o] = Malformed
        /\ \A i, j \in 1..n :
              i < j => ContentIndex(F[JsonName(i)]) <= ContentIndex(F[JsonName(j)])}

\* the input folders with at most MaxFiles documents
Folders == UNION {FoldersOf(n) : n \in 0..MaxFiles}

----------------------------------------------------------------------------
(* The state machine *)

NoText == <<>>
NoFiles == <<>>

Locals ==
    /\ process_id = NoText /\ start_date = 0 /\ status = NoText
    /\ error = "none"
    /\ todo = {} /\ filename = NoText /\ json_data = Null
    /\ numero_control = Null /\ pending = <<>> /\ visited = <<>>

\* the state before the first run, but for the input folder
Fresh ==
    /\ processed = NoFiles
    /\ csvFiles = NoFiles
    /\ controlFile = [exists |-> FALSE, lines |-> <<>>]
    /\ clock = 0
    /\ uuids = 0
    /\ runs = 0
    /\ pc = "idle"
    /\ Locals
    /\ calls = <<>>
    /\ fin = Null
    /\ fout = Raised

Init == intake \in Folders /\ Fresh

\* str(uuid.uuid4()): an identifier never handed out before
uuid4(n) == IntToStr(n + 1)

\* datetime.now() at the end of a run: the clock, which never runs backwards,
\* may have advanced since main read it at the start of the run.  Only the
\* order of the two readings of one run matters here, so the time that passes
\* between two runs is not modelled.  Timestamps are compared as times: the
\* format '%Y-%m-%d %H:%M:%S' keeps their order.
Now == {t \in clock..(clock + 1) : t <= MaxClock}

\* the names of all documents so far, in the input or the processed folder
DocNames == {n \in DOMAIN intake \cup DOMAIN processed : EndsWith(n, DOT_JSON)}

\* Between two runs a new document arrives in the input folder, under a name
\* no document had before.
Deliver ==
    /\ pc = "idle"
    /\ runs \in 1..(MaxRuns - 1)
    /\ Cardinality(DocNames) < MaxFiles
    /\ \E c \in Contents :
        LET new == JsonName(Cardinality(DocNames) + 1)
        IN  intake' = [n \in DOMAIN intake \cup {new} |->
                          IF n = new THEN c ELSE intake[n]]
    /\ UNCHANGED <<processed, csvFiles, controlFile, clock, uuids, runs, pc,
                   process_id, start_date, status, error, todo, filename,
                   json_data, numero_control, pending, visited, calls, fin, fout>>

\* line 10: the interpreter loads the module and binds process_id
StartProcess ==
    /\ pc = "idle"
    /\ runs < MaxRuns
    /\ runs' = runs + 1
    /\ process_id' = uuid4(uuids)
    /\ uuids' = uuids + 1
    /\ pc' = "main"
    /\ UNCHANGED <<intake, processed, csvFiles, controlFile, clock, start_date,
                   status, error, todo, filename, json_data, numero_control, pending,
                   visited, calls, fin, fout>>

\* lines 139-150 and 95-99: main reads the clock and enters
\* process_files_in_folder, which lists the input folder; the loop body runs
\* for the names that end with ".json" only, in the order os.listdir gave
\* them, which is any order (LoadFile picks the next one)
MainBegin ==
    /\ pc = "main"
    /\ start_date' = clock
    /\ todo' = {f \in DOMAIN intake : EndsWith(f, DOT_JSON)}
    /\ visited' = <<>>
    /\ pc' = "loop"
    /\ UNCHANGED <<intake, processed, csvFiles, controlFile, clock, uuids, runs,
                   process_id, status, error, filename, json_data, numero_control,
                   pending, calls, fin, fout>>

\* an exception e leaves process_files_in_folder: lines 155-157
Except(e) ==
    /\ error' = e
    /\ status' = FAILED
    /\ pc' = "finish"

\* lines 100-106: the loop takes a document, parses it and reads its control
\* number; json.load or .get may raise
LoadFile ==
    /\ pc = "loop"
    /\ \E f \in todo :
        /\ todo' = todo \ {f}
        /\ filename' = f
        /\ visited' = Append(visited, f)
        /\ IF intake[f] = Malformed
           THEN /\ Except("json.load")
                /\ UNCHANGED <<json_data, numero_control, pending>>
           ELSE /\ json_data' = intake[f]
                /\ LET nc == ControlNumber(intake[f])
                   IN  IF ~nc.ok
                       THEN /\ Except("get")
                            /\ UNCHANGED <<numero_control, pending>>
                       ELSE /\ numero_control' = nc.d
                            /\ pending' = DocCalls(intake[f].c, 1)
                            /\ pc' = "entries"
                            /\ UNCHANGED <<status, error>>
    /\ UNCHANGED <<intake, processed, csvFiles, controlFile, clock, uuids, runs,
                   process_id, start_date, calls, fin, fout>>

\* the record of one append_flattened_to_csv call: its place in the loop, its
\* arguments, the run and the document it was made for, whether it found no
\* file, and the number of the line it wrote last
Call(kind, key, data) ==
    [kind |-> kind, key |-> key, data |-> data, nc |-> numero_control,
     run |-> runs, src |-> filename,
     created |-> key \notin DOMAIN csvFiles,
     line |-> Len(csvFiles'[key])]

\* lines 110-128: the next append call of the current document; flatten_json
\* may raise
AppendNext ==
    /\ pc = "entries"
    /\ pending # <<>>
    /\ LET call == Head(pending)
           r == IF call.kind = "flatten" THEN flatten_json(call.v, NoText)
                ELSE IF call.kind = "single" THEN Returned(<<It(call.key, call.v)>>)
                ELSE Returned(<<>>)
       IN  IF ~r.ok
           THEN /\ Except("flatten_json")
                /\ UNCHANGED <<csvFiles, calls, pending>>
           ELSE /\ csvFiles' = append_flattened_to_csv(
                                   csvFiles, r.d, call.key, numero_control, process_id)
                /\ calls' = Append(calls, Call(call.kind, call.key, r.d))
                /\ pending' = Tail(pending)
                /\ UNCHANGED <<pc, status, error>>
    /\ UNCHANGED <<intake, processed, controlFile, clock, uuids, runs,
                   process_id, start_date, todo, filename, json_data,
                   numero_control, visited, fin, fout>>

\* A variant that moves the document before its append calls are all made
\* (the move of line 131 inside the loop of line 108).
MoveFileInsideLoop ==
    /\ pc = "entries"
    /\ processed' = [n \in DOMAIN processed \cup {filename} |->
                        IF n = filename THEN intake[filename] ELSE processed[n]]
    /\ intake' = [n \in DOMAIN intake \ {filename} |-> intake[n]]
    /\ pc' = "loop"
    /\ UNCHANGED <<csvFiles, controlFile, clock, uuids, runs, process_id,
                   start_date, status, error, todo, filename, json_data,
                   numero_control, pending, visited, calls, fin, fout>>

\* lines 130-132: shutil.move(file_path, processed_path)
MoveFile ==
    /\ pc = "entries"
    /\ pending = <<>>
    /\ processed' = [n \in DOMAIN processed \cup {filename} |->
                        IF n = filename THEN intake[filename] ELSE processed[n]]
    /\ intake' = [n \in DOMAIN intake \ {filename} |-> intake[n]]
    /\ pc' = "loop"
    /\ UNCHANGED <<csvFiles, controlFile, clock, uuids, runs, process_id,
                   start_date, status, error, todo, filename, json_data,
                   numero_control, pending, visited, calls, fin, fout>>

\* lines 153-154: the loop is over and process_files_in_folder returns
Return ==
    /\ pc = "loop"
    /\ todo = {}
    /\ status' = SUCCESS
    /\ pc' = "finish"
    /\ UNCHANGED <<intake, processed, csvFiles, controlFile, clock, uuids, runs,
                   process_id, start_date, error, todo, filename, json_data,
                   numero_control, pending, visited, calls, fin, fout>>

\* lines 159-160: main reads the clock, appends the run record and exits
Finish ==
    /\ pc = "finish"
    /\ \E t \in Now :
        /\ clock' = t
        /\ controlFile' = update_control_file(
                              controlFile, process_id, start_date, t, status)
    /\ pc' = "idle"
    /\ process_id' = NoText /\ start_date' = 0 /\ status' = NoText
    /\ error' = "none"
    /\ filename' = NoText /\ json_data' = Null
    /\ numero_control' = Null /\ pending' = <<>>
    /\ UNCHANGED <<intake, processed, csvFiles, uuids, runs, todo, visited,
                   calls, fin, fout>>

Next ==
    \/ Deliver
    \/ StartProcess
    \/ MainBegin
    \/ LoadFile
    \/ AppendNext
    \/ MoveFile
    \/ Return
    \/ Finish

Spec == Init /\ [][Next]_vars

\* The runs over an input folder that holds three documents and receives no
\* further one.
InitThree == intake \in FoldersOf(3) /\ Fresh

NextThree ==
    \/ StartProcess
    \/ MainBegin
    \/ LoadFile
    \/ AppendNext
    \/ MoveFile
    \/ Return
    \/ Finish

SpecThree == InitThree /\ [][NextThree]_vars

----------------------------------------------------------------------------
(* flatten_json on its own: every object of bounded depth and width *)

\* all sequences over S of length at most n
RECURSIVE SeqsUpTo(_, _)
SeqsUpTo(S, n) ==
    IF n = 0 THEN {<<>>}
    ELSE LET shorter == SeqsUpTo(S, n - 1)
         IN  shorter \cup {Append(q, x) : q \in shorter, x \in S}

TreeKeys == {KA, KB}

\* the dicts with distinct keys of TreeKeys, at most w items, values in V
ObjectsOver(V, w) ==
    {Obj(c) : c \in {q \in SeqsUpTo({It(k, v) : k \in TreeKeys, v \in V}, w) :
                        \A i, j \in 1..Len(q) : i # j => q[i].k # q[j].k}}

\* the lists of at most w elements of V
ArraysOver(V, w) == {Arr(c) : c \in SeqsUpTo({El(v) : v \in V}, w)}

RECURSIVE Trees(_)
Trees(d) ==
    IF d = 0 THEN {Str(T1)}
    ELSE LET V == Trees(d - 1)
         IN  V \cup ObjectsOver(V, MaxWidth) \cup ArraysOver(V, MaxWidth)

InitFlatten ==
    /\ intake = NoFiles
    /\ processed = NoFiles
    /\ csvFiles = NoFiles
    /\ controlFile = [exists |-> FALSE, lines |-> <<>>]
    /\ clock = 0
    /\ uuids = 0
    /\ runs = 0
    /\ pc = "call"
    /\ Locals
    /\ calls = <<>>
    /\ fin \in {v \in Trees(MaxDepth) : IsDict(v)}
    /\ fout = Raised

\* flattened = flatten_json(value)
FlattenStep ==
    /\ pc = "call"
    /\ fout' = flatten_json(fin, NoText)
    /\ pc' = "called"
    /\ UNCHANGED <<intake, processed, csvFiles, controlFile, clock, uuids, runs,
                   process_id, start_date, status, error, todo, filename, json_data,
                   numero_control, pending, visited, calls, fin>>

NextFlatten == FlattenStep

SpecFlatten == InitFlatten /\ [][NextFlatten]_vars

----------------------------------------------------------------------------
(* C1 *)

\* The leaves of a tree v as the description of the flattener has them: the
\* pairs of a leaf's path and its scalar, a path being the ancestor keys
\* joined with "." with "[i]" appended for the array position i.
RECURSIVE LeafPairs(_, _, _)
LeafPairs(v, path, atRoot) ==
    IF IsDict(v)
    THEN UNION {LeafPairs(v.c[i].v,
                          IF atRoot THEN v.c[i].k ELSE path \o SEPARATOR \o v.c[i].k,
                          FALSE) : i \in 1..Len(v.c)}
    ELSE IF IsList(v)
    THEN UNION {LeafPairs(v.c[i].v, path \o <<91>> \o IntToStr(i - 1) \o <<93>>,
                          FALSE) : i \in 1..Len(v.c)}
    ELSE {<<path, v>>}

DictPairs(d) == {<<d[i].k, d[i].v>> : i \in 1..Len(d)}

\* C1: for every document tree, flatten_json returns the mapping that binds
\* each leaf's path to its scalar value, array elements being handled alike
\* whether they are objects, arrays or scalars.
C1_FlattenBindsEveryLeaf ==
    pc = "called" => (fout.ok /\ DictPairs(fout.d) = LeafPairs(fin, NoText, TRUE))

----------------------------------------------------------------------------
(* Notions the properties below are stated with *)

Injected == {NUMERO_CONTROL, PROCESS_ID}

\* the place of a column name in the lexicographic order of a set of names
Pos(name, S) == 1 + Cardinality({x \in S : StrLess(x, name)})

\* the append calls made for the file named n during run r, in order
CallsOf(n, r) == SelectSeq(calls, LAMBDA c : c.src = n /\ c.run = r)

\* the calls of the loop proper, without the call of line 128
Normal(cs) == SelectSeq(cs, LAMBDA c : c.kind # "marker")

\* the file of the name n, wherever it lies; a name stands for the same
\* content throughout, as no name is given to two files
ContentOf(n) == IF n \in DOMAIN intake THEN intake[n] ELSE processed[n]

\* the handling of the document named filename is over: it was moved, or an
\* exception ended the run while it was the current one
DocEnded == pc \in {"loop", "finish"} /\ filename # NoText

\* the run that started last is over
RunEnded == pc = "idle" /\ runs >= 1

\* the identifier of run r: the one its run record holds or, while the run
\* lasts, the one of the running process
RunIdOf(r) ==
    IF controlFile.exists /\ r + 1 <= Len(controlFile.lines)
    THEN controlFile.lines[r + 1][1] ELSE process_id

\* the column set of the row an append call writes, the value the row has to
\* hold for a column of it, and the line the call wrote
Columns(c) == Keys(c.data) \cup Injected
RowValue(c, k) ==
    IF k = NUMERO_CONTROL THEN c.nc
    ELSE IF k = PROCESS_ID THEN Str(RunIdOf(c.run))
    ELSE Get(c.data, k)
RowOf(c) == csvFiles[c.key][c.line]

\* the column names of the header of the file of group key
HeaderOf(key) == [p \in 1..Len(csvFiles[key][1]) |-> csvFiles[key][1][p].s]
HeaderNames(key) == {HeaderOf(key)[p] : p \in 1..Len(csvFiles[key][1])}

\* the run records of the ledger, without its header
RunRecords ==
    IF controlFile.lines = <<>> THEN <<>> ELSE Tail(controlFile.lines)

----------------------------------------------------------------------------
(* C2 *)

\* The records the routing rules give for one top-level entry: one flattened
\* record for an object, one record per element for an array, one
\* single-field record for a scalar.
EntryRecords(key, value) ==
    IF IsDict(value)
    THEN <<[key |-> key, pairs |-> LeafPairs(value, NoText, TRUE)]>>
    ELSE IF IsList(value)
    THEN [i \in 1..Len(value.c) |->
            [key |-> key,
             pairs |-> IF IsDict(value.c[i].v)
                       THEN LeafPairs(value.c[i].v, NoText, TRUE)
                       ELSE {<<key, value.c[i].v>>}]]
    ELSE <<[key |-> key, pairs |-> {<<key, value>>}]>>

RECURSIVE DocRecords(_, _)
DocRecords(items, i) ==
    IF i > Len(items) THEN <<>>
    ELSE EntryRecords(items[i].k, items[i].v) \o DocRecords(items, i + 1)

Routed(cs) ==
    [i \in 1..Len(cs) |-> [key |-> cs[i].key, pairs |-> DictPairs(cs[i].data)]]

\* C2: for every Document and every top-level entry (key, value) the rows
\* appended are, in the file of group key: one flattened record if value is
\* an object, one row per element if it is an array, one single-field record
\* if it is a scalar.
C2_GroupRouting ==
    (DocEnded /\ IsDict(ContentOf(filename)))
        => Routed(Normal(CallsOf(filename, runs)))
               = DocRecords(ContentOf(filename).c, 1)

----------------------------------------------------------------------------
(* C3 *)

\* C3: after N invocations the ledger holds exactly N run records, one per
\* invocation, with pairwise distinct run identifiers and start <= end; a
\* running invocation has not written its record yet.
C3_LedgerRowPerRun ==
    /\ controlFile.exists <=> controlFile.lines # <<>>
    /\ controlFile.exists => controlFile.lines[1] = ControlFields
    /\ Len(RunRecords) = (IF pc = "idle" THEN runs ELSE runs - 1)
    /\ \A i, j \in 1..Len(RunRecords) :
          i # j => RunRecords[i][1] # RunRecords[j][1]
    /\ \A i \in 1..Len(RunRecords) :
          /\ RunRecords[i][2] <= RunRecords[i][3]
          /\ RunRecords[i][4] \in {SUCCESS, FAILED}

\* two invocations are over, one a success and one a failure, and the clock
\* advanced during one of them
C3_Witness ==
    /\ RunEnded
    /\ Len(RunRecords) = 2
    /\ RunRecords[1][4] # RunRecords[2][4]
    /\ RunRecords[2][2] < RunRecords[2][3]

----------------------------------------------------------------------------
(* C4 *)

\* the last run listed three documents and the second of them is malformed:
\* the loop took it second, or the loop ended on the first and a malformed
\* one was among those the listing held after it
SecondOfThreeMalformed ==
    /\ RunEnded
    /\ Len(visited) + Cardinality(todo) = 3
    /\ \/ Len(visited) = 2 /\ ContentOf(visited[2]) = Malformed
       \/ Len(visited) = 1 /\ \E f \in todo : ContentOf(f) = Malformed

\* C4: if a batch lists three Documents and the second is malformed, then at
\* the end of the run Document 1 is archived with all its rows written,
\* Documents 2 and 3 are still in intake, Document 3 has no rows, and the run
\* record says failure.
C4_FailureContainment ==
    SecondOfThreeMalformed =>
        /\ Len(visited) = 2
        /\ visited[1] \in DOMAIN processed /\ visited[1] \notin DOMAIN intake
        /\ Len(CallsOf(visited[1], runs)) = Len(DocCalls(ContentOf(visited[1]).c, 1))
        /\ visited[2] \in DOMAIN intake
        /\ \A f \in todo : f \in DOMAIN intake /\ CallsOf(f, runs) = <<>>
        /\ RunRecords[Len(RunRecords)][4] = FAILED

----------------------------------------------------------------------------
(* C5 *)

KindsAndKeys(cs) == [i \in 1..Len(cs) |-> [kind |-> cs[i].kind, key |-> cs[i].key]]

\* C5: a Document is in the archive only once every row derived from it, the
\* marker included, is appended, and nothing is done for it afterwards; a
\* Document being handled is still in intake; a Document handled without
\* failure is absent from intake and present, under its name and unchanged,
\* in the archive.
C5_ArchiveIsLast ==
    /\ \A n \in DOMAIN processed :
          /\ n \notin DOMAIN intake
          /\ \E r \in 1..runs :
                /\ KindsAndKeys(CallsOf(n, r)) = KindsAndKeys(DocCalls(processed[n].c, 1))
                /\ \A q \in (r + 1)..runs : CallsOf(n, q) = <<>>
    /\ pc = "entries" =>
          filename \in DOMAIN intake /\ filename \notin DOMAIN processed
    /\ (DocEnded /\ error = "none") =>
          /\ filename \notin DOMAIN intake
          /\ filename \in DOMAIN processed
          /\ processed[filename] = json_data

\* a document with a body section has just been moved, after its four rows
C5_Witness ==
    /\ pc = "loop"
    /\ filename \in DOMAIN processed
    /\ CUERPO_DOCUMENTO \in Keys(processed[filename].c)
    /\ Len(CallsOf(filename, runs)) = 4

----------------------------------------------------------------------------
(* C6 *)

\* the path identificacion.numeroControl is missing from the document d
MissingPath(d) ==
    \/ IDENTIFICACION \notin Keys(d.c)
    \/ ~IsDict(Get(d.c, IDENTIFICACION))
    \/ NUMERO_CONTROL \notin Keys(Get(d.c, IDENTIFICACION).c)

\* C6: when identificacion.numeroControl is missing, be it that
\* identificacion is absent, is an object without numeroControl or is no
\* object at all, processing does not fail, every row of the Document carries
\* "N/A" and the Document is archived.
C6_MissingControlNumber ==
    (DocEnded /\ IsDict(ContentOf(filename)) /\ MissingPath(ContentOf(filename)))
        => /\ error = "none"
           /\ filename \in DOMAIN processed
           /\ \A i \in 1..Len(calls) :
                 (calls[i].src = filename /\ calls[i].run = runs)
                     => /\ calls[i].nc = Str(NA)
                        /\ RowOf(calls[i])[Pos(NUMERO_CONTROL, Columns(calls[i]))] = Str(NA)

----------------------------------------------------------------------------
(* C7 *)

\* the control number of a document as the data model defines it
ControlNumberOf(d) == IF MissingPath(d) THEN Str(NA) ELSE Get(Get(d.c, IDENTIFICACION).c, NUMERO_CONTROL)

\* C7: every row written holds, in the columns numeroControl and processID of
\* its own column set, the control number of its Document and the identifier
\* of the run that wrote it, which is the one of that run's run record, also
\* when the record had neither field or had them with other values.
C7_InjectedFields ==
    \A i \in 1..Len(calls) :
        LET c == calls[i]
            row == RowOf(c)
            cols == Columns(c)
        IN  /\ Len(row) = Cardinality(cols)
            /\ row[Pos(NUMERO_CONTROL, cols)] = ControlNumberOf(ContentOf(c.src))
            /\ row[Pos(PROCESS_ID, cols)] = Str(RunIdOf(c.run))

\* a finished run wrote the empty record and a record that came with its own
\* numeroControl, other than the control number of its document
C7_Witness ==
    /\ RunEnded
    /\ \E i, j \in 1..Len(calls) :
          /\ calls[i].run = runs /\ calls[i].data = <<>>
          /\ calls[j].run = runs /\ NUMERO_CONTROL \in Keys(calls[j].data)
          /\ Get(calls[j].data, NUMERO_CONTROL) # ControlNumberOf(ContentOf(calls[j].src))

----------------------------------------------------------------------------
(* C8 *)

\* C8: for a Document with the key "cuerpo documento" the rows appended to
\* that group's file are the normal rows of the entry followed by exactly one
\* row with the two injected fields only; no other key gets such a marker.
C8_BodyMarker ==
    (DocEnded /\ IsDict(ContentOf(filename)))
        => LET doc == ContentOf(filename)
               mine == CallsOf(filename, runs)
               body == SelectSeq(mine, LAMBDA c : c.key = CUERPO_DOCUMENTO)
           IN  /\ CUERPO_DOCUMENTO \in Keys(doc.c) =>
                     /\ Routed(body)
                            = EntryRecords(CUERPO_DOCUMENTO, Get(doc.c, CUERPO_DOCUMENTO))
                                  \o <<[key |-> CUERPO_DOCUMENTO, pairs |-> {}]>>
                     /\ body[Len(body)].kind = "marker"
                     /\ Len(RowOf(body[Len(body)])) = 2
               /\ \A i \in 1..Len(mine) :
                     mine[i].kind = "marker" => mine[i].key = CUERPO_DOCUMENTO

----------------------------------------------------------------------------
(* C9 *)

\* an append call that found its file with a header other than its columns
Drifted(c) == ~c.created /\ Columns(c) # HeaderNames(c.key)

\* C9 as stated: such a row leaves the header columns it lacks empty, so that
\* each of its values sits under the header column of its name.
C9_AbsentColumnsLeftEmpty ==
    \A i \in 1..Len(calls) :
        LET c == calls[i]
            header == HeaderOf(c.key)
        IN  Drifted(c) =>
                \A p \in 1..Len(header) :
                    IF header[p] \in Columns(c)
                    THEN p <= Len(RowOf(c)) /\ RowOf(c)[p] = RowValue(c, header[p])
                    ELSE p > Len(RowOf(c)) \/ RowOf(c)[p] = Str(NoText)

\* C9 amended: such a row consists of exactly the values of its own column
\* set, in the lexicographic order of the column names; no cell is written
\* for a header column the row lacks.
C9_RowInOwnColumnOrder ==
    \A i \in 1..Len(calls) :
        LET c == calls[i]
            row == RowOf(c)
            cols == Columns(c)
        IN  Drifted(c) =>
                /\ Len(row) = Cardinality(cols)
                /\ \A k \in cols : row[Pos(k, cols)] = RowValue(c, k)

\* a row was written to a file whose header has a column the row lacks, and a
\* value of the row lies under a header column of another name
C9_Witness ==
    \E i \in 1..Len(calls) :
        LET c == calls[i]
        IN  /\ Drifted(c)
            /\ HeaderNames(c.key) \ Columns(c) # {}
            /\ \E k \in Columns(c) :
                  /\ Pos(k, Columns(c)) <= Len(HeaderOf(c.key))
                  /\ HeaderOf(c.key)[Pos(k, Columns(c))] # k

----------------------------------------------------------------------------
(* C10 *)

CallsTo(key) == SelectSeq(calls, LAMBDA c : c.key = key)

\* every output file is its header, which is the sorted column set of the
\* call that created it, and one line for each call made for it
SingleHeader ==
    \A key \in DOMAIN csvFiles :
        LET cs == CallsTo(key)
            header == HeaderOf(key)
        IN  /\ Len(cs) >= 1
            /\ Len(csvFiles[key]) = 1 + Len(cs)
            /\ \A i \in 1..Len(cs) : cs[i].line = i + 1 /\ (cs[i].created <=> i = 1)
            /\ HeaderNames(key) = Columns(cs[1])
            /\ \A p, q \in 1..Len(header) : p < q => StrLess(header[p], header[q])

\* a step leaves every line of every output file as it is, and adds at most
\* one line at the end of a file, or a new file of a header and a row
AppendOnly ==
    /\ \A key \in DOMAIN csvFiles :
          /\ key \in DOMAIN csvFiles'
          /\ Len(csvFiles'[key]) \in {Len(csvFiles[key]), Len(csvFiles[key]) + 1}
          /\ SubSeq(csvFiles'[key], 1, Len(csvFiles[key])) = csvFiles[key]
    /\ \A key \in DOMAIN csvFiles' \ DOMAIN csvFiles : Len(csvFiles'[key]) = 2

\* C10: the header of an output file is written once, by the append that
\* creates the file, and is the sorted union of that record's keys and the
\* injected fields; every later append, of the same run or a later one, adds
\* one line at the end and changes no earlier line.
C10_AppendOnlySingleHeader == []SingleHeader /\ [][AppendOnly]_vars

\* a file holds rows of two runs with different column sets
C10_Witness ==
    \E key \in DOMAIN csvFiles :
        \E i, j \in 1..Len(calls) :
            /\ calls[i].key = key /\ calls[j].key = key
            /\ calls[i].run # calls[j].run
            /\ Columns(calls[i]) # Columns(calls[j])

====
